---------------------------- MODULE Spec2Model ----------------------------
(***************************************************************************)
(* Model of package epd7in5 (src/epd7in5/epd7in5.go): the driver of the    *)
(* Waveshare 7.5inch e-paper panel.                                        *)
(*                                                                         *)
(* The state is what a logic analyser and the caller can observe: the      *)
(* levels of the dc, cs and rst lines, the busy line, the public operation *)
(* being run with the statements it still has to execute, how it returned, *)
(* and the trace of the line writes, byte exchanges, delays and busy-waits *)
(* it has performed so far.  Every line write and every byte exchange may  *)
(* fail, as e.dc.Out, e.cs.Out, e.rst.Out and e.c.Tx return an error.      *)
(*                                                                         *)
(* The panel geometry (800 x 480 in the source) is scaled down to          *)
(* 8*MaxRowBytes x MaxRows pixels; the width stays a multiple of 8.        *)
(***************************************************************************)
EXTENDS Integers, Sequences, FiniteSets

(***************************************************************************)
(* Bounds of the model.                                                    *)
(***************************************************************************)
MaxRowBytes == 2
MaxRows == 2
\* an image's bounds rectangle starts at (0..MaxOrigin, 0..MaxOrigin)
MaxOrigin == 1
\* an image is up to MaxExtra pixels wider and higher than the panel
MaxExtra == 1

(***************************************************************************)
(* Constants of the package.                                               *)
(***************************************************************************)
Epd7in5V2Width == 8 * MaxRowBytes
Epd7in5V2Height == MaxRows

PanelSetting == \h00
PowerSetting == \h01
PowerOff == \h02
PowerOffSequenceSetting == \h03
DeepSleep == \h07
DataStartTransmission1 == \h10
DisplayRefresh == \h12
AutoMeasurementVcom == \h80

\* gpio.Low and gpio.High
Low == "Low"
High == "High"

\* the fields New gives the handle
widthByte == Epd7in5V2Width \div 8
heightByte == Epd7in5V2Height

(***************************************************************************)
(* Arithmetic on bytes.                                                    *)
(***************************************************************************)
RECURSIVE BitAnd(_, _)
BitAnd(a, b) ==
    IF a = 0 \/ b = 0 THEN 0
    ELSE (a % 2) * (b % 2) + 2 * BitAnd(a \div 2, b \div 2)

RECURSIVE BitOr(_, _)
BitOr(a, b) ==
    IF a = 0 THEN b
    ELSE IF b = 0 THEN a
    ELSE (IF a % 2 = 1 \/ b % 2 = 1 THEN 1 ELSE 0) + 2 * BitOr(a \div 2, b \div 2)

\* x << n and x >> n on a byte, ^x on a byte
Shl(x, n) == (x * 2^n) % 256
Shr(x, n) == x \div 2^n
BitNot(x) == 255 - x

(***************************************************************************)
(* Statements.  A public operation is the sequence of the statements it    *)
(* executes when nothing fails; a failing statement returns from it.       *)
(***************************************************************************)
Stmt(i, lv, b) == [i |-> i, lv |-> lv, b |-> b]

\* e.rst.Out(level)
rstOut(level) == Stmt("rst", level, 0)
\* time.Sleep(ms * time.Millisecond)
timeSleep(ms) == Stmt("sleep", "-", ms)
\* a read of img[idx] past the end of the slice: Go's run-time panic
indexPanic == Stmt("panic", "-", 0)

\* a sendCommand that selects data
sendCommandDC_High == High

sendCommandDC == Low
sendCommand(cmd) == Stmt("sendCommand", sendCommandDC, cmd)

sendDataDC == High
sendData(data) == Stmt("sendData", sendDataDC, data)

waitUntilIdle == Stmt("waitUntilIdle", "-", 0)

\* a refresh trigger that does not wait for the panel
turnOnDisplay_NoWait ==
    << sendCommand(DisplayRefresh), timeSleep(100) >>

\* a refresh trigger without the settle delay
turnOnDisplay_NoDelay ==
    << sendCommand(DisplayRefresh), waitUntilIdle >>

turnOnDisplay ==
    << sendCommand(DisplayRefresh), timeSleep(100), waitUntilIdle >>

\* a reset pulse that does not hold the line low
Reset_NoLowHold ==
    << rstOut(High), timeSleep(20),
       rstOut(Low),
       rstOut(High), timeSleep(20) >>

Reset ==
    << rstOut(High), timeSleep(20),
       rstOut(Low), timeSleep(2),
       rstOut(High), timeSleep(20) >>

EpdInit ==
    Reset \o
    << sendCommand(PowerSetting),
       sendData(\h07), sendData(\h07), sendData(\h3F), sendData(\h3F),
       sendCommand(\h06),
       sendData(\h17), sendData(\h17), sendData(\h28), sendData(\h17),
       sendCommand(\h04), timeSleep(100), waitUntilIdle,
       sendCommand(\h00), sendData(\h1F),
       sendCommand(\h61),
       sendData(\h03), sendData(\h20), sendData(\h01), sendData(\hE0),
       sendCommand(\h15), sendData(\h00),
       sendCommand(\h50), sendData(\h10), sendData(\h07),
       sendCommand(\h60), sendData(\h22) >>

InitFast ==
    Reset \o
    << sendCommand(\h00), sendData(\h1F),
       sendCommand(\h50), sendData(\h10), sendData(\h07),
       sendCommand(\h04), timeSleep(100), waitUntilIdle,
       sendCommand(\h06),
       sendData(\h27), sendData(\h27), sendData(\h18), sendData(\h17),
       sendCommand(\hE0), sendData(\h02), sendData(\hE5), sendData(\h5A) >>

\* a partial init that does not wait after power-on
InitPart_NoWait ==
    Reset \o
    << sendCommand(\h00), sendData(\h1F),
       sendCommand(\h04), timeSleep(100),
       sendCommand(\hE0), sendData(\h02),
       sendCommand(\hE5), sendData(\h6E) >>

InitPart ==
    Reset \o
    << sendCommand(\h00), sendData(\h1F),
       sendCommand(\h04), timeSleep(100), waitUntilIdle,
       sendCommand(\hE0), sendData(\h02),
       sendCommand(\hE5), sendData(\h6E) >>

\* loops of Clear that send one filler byte for each position
ClearLoop_PerPosition(n) == [k \in 1..(heightByte * widthByte) |-> sendData(\h33)]

\* the loops of Clear: 4 filler bytes for each of heightByte*widthByte positions
RECURSIVE ClearLoop(_)
ClearLoop(n) ==
    IF n >= heightByte * widthByte * 4 THEN << >>
    ELSE << sendData(\h33) >> \o ClearLoop(n + 1)

Clear ==
    << sendCommand(DataStartTransmission1) >> \o ClearLoop(0) \o turnOnDisplay

\* a nibble with the two codes exchanged
DisplayNibble_Swapped(dataBlack) ==
    IF BitAnd(dataBlack, AutoMeasurementVcom) > 0
    THEN PowerOffSequenceSetting ELSE PanelSetting

\* a nibble chosen from the lowest bit of dataBlack
DisplayNibble_LowBit(dataBlack) ==
    IF BitAnd(dataBlack, 1) > 0
    THEN PanelSetting ELSE PowerOffSequenceSetting

\* the nibble Display sends for the top bit of dataBlack
DisplayNibble(dataBlack) ==
    IF BitAnd(dataBlack, AutoMeasurementVcom) > 0
    THEN PanelSetting ELSE PowerOffSequenceSetting

\* the loop over k of Display: two bits of dataBlack per byte sent
RECURSIVE DisplayBits(_, _)
DisplayBits(dataBlack, k) ==
    IF k >= 8 THEN << >>
    ELSE LET hi == Shl(DisplayNibble(dataBlack), 4)
             dataBlack1 == Shl(dataBlack, 1)
             data == BitOr(hi, DisplayNibble(dataBlack1))
             dataBlack2 == Shl(dataBlack1, 1)
         IN  << sendData(data) >> \o DisplayBits(dataBlack2, k + 2)

\* the loops over j and i of Display: idx = i + j*widthByte runs over
\* 0 .. heightByte*widthByte - 1 in order; img[idx] panics past the end of img
RECURSIVE DisplayLoop(_, _)
DisplayLoop(img, idx) ==
    IF idx >= heightByte * widthByte THEN << >>
    ELSE IF idx >= Len(img) THEN << indexPanic >>
    ELSE DisplayBits(BitNot(img[idx + 1]), 0) \o DisplayLoop(img, idx + 1)

\* what follows the loops of Display, which a panic never reaches
DisplayTail(loop) ==
    IF loop # << >> /\ loop[Len(loop)].i = "panic" THEN << >> ELSE turnOnDisplay

Display(img) ==
    LET loop == DisplayLoop(img, 0)
    IN  << sendCommand(DataStartTransmission1) >> \o loop \o DisplayTail(loop)

\* Sleep without the busy-wait after the power-off command
Sleep_NoWait == << sendCommand(PowerOff), sendCommand(DeepSleep), sendData(\hA5) >>

Sleep ==
    << sendCommand(PowerOff), waitUntilIdle,
       sendCommand(DeepSleep), sendData(\hA5) >>

\* the statements of New: host.Init, gpioreg.ByName, the gpio.INVALID test,
\* PinOut.Out(gpio.Low), PinIO.In, spireg.Open and port.Connect
hostInit == Stmt("hostInit", "-", 0)
ByName(pin) == Stmt("ByName", pin, 0)
notINVALID(pin) == Stmt("INVALID", pin, 0)
pinOut(pin) == Stmt("Out", pin, 0)
pinIn(pin) == Stmt("In", pin, 0)
spiregOpen == Stmt("Open", "port", 0)
portConnect == Stmt("Connect", "port", 0)

New ==
    << hostInit,
       ByName("dc"), notINVALID("dc"), pinOut("dc"),
       ByName("cs"), pinOut("cs"),
       ByName("rst"), pinOut("rst"),
       ByName("busy"), pinIn("busy"),
       spiregOpen, portConnect >>

(***************************************************************************)
(* Images and Convert.  An image is its bounds rectangle (Min at           *)
(* (minX, minY), Dx() = dx, Dy() = dy) and a pattern giving the grey level *)
(* of each pixel of the rectangle.                                         *)
(***************************************************************************)
Patterns == {"black", "white", "dark", "light", "checker", "stripes"}

Grey(pat, x, y) ==
    CASE pat = "black" -> 0
      [] pat = "white" -> 255
      [] pat = "dark" -> 127
      [] pat = "light" -> 128
      [] pat = "checker" -> IF (x + y) % 2 = 0 THEN 0 ELSE 255
      [] pat = "stripes" -> IF x % 3 = 0 THEN 255 ELSE 0
      [] OTHER -> 0

Image(minX, minY, dx, dy, pat) ==
    [minX |-> minX, minY |-> minY, dx |-> dx, dy |-> dy, pat |-> pat]

NoImage == Image(0, 0, 0, 0, "none")

\* img.At(x, y) of an image.Gray: the zero colour outside the bounds
At(img, x, y) ==
    IF /\ img.minX <= x /\ x < img.minX + img.dx
       /\ img.minY <= y /\ y < img.minY + img.dy
    THEN Grey(img.pat, x, y)
    ELSE 0

\* color.sqDiff on 16-bit channels: ((x - y) * (x - y)) >> 2 in uint32, which
\* never wraps for 16-bit x and y; with |x - y| = 2q + r it is q*q + q*r
sqDiff(x, y) ==
    LET d == IF x >= y THEN x - y ELSE y - x
        q == d \div 2
        r == d % 2
    IN  q * q + q * r

\* color.Palette{color.Black, color.White}.Index(c) for an opaque grey c: the
\* first entry of the palette at the least distance.  The red, green and blue
\* terms of a distance are equal and its alpha term is 0, so the distances
\* compare as their red terms do
PaletteIndex(grey) ==
    LET c == grey * 257
        toBlack == sqDiff(c, 0)
        toWhite == sqDiff(c, 65535)
    IN  IF toWhite < toBlack THEN 1 ELSE 0

bgColor == 1

\* bytes.Repeat([]byte{PanelSetting}, e.widthByte*e.heightByte)
ConvertPrefill == [k \in 1..(widthByte * heightByte) |-> PanelSetting]

\* a Convert that pads with black
ConvertBit_BlackPad(img, i, j) ==
    IF i < img.dx /\ j < img.dy THEN PaletteIndex(At(img, i, j)) ELSE 0

\* the bit Convert computes for panel pixel (i, j)
ConvertBit(img, i, j) ==
    IF i < img.dx /\ j < img.dy THEN PaletteIndex(At(img, i, j)) ELSE bgColor

\* a Convert that fills a byte from its least significant bit
ConvertMask_LSBFirst(i) == 2^(i % 8)

\* the mask Convert sets for column i
ConvertMask(i) == Shr(AutoMeasurementVcom, i % 8)

\* the loops over j and i of Convert, pixel n = i + j*Epd7in5V2Width
RECURSIVE ConvertLoop(_, _, _, _)
ConvertLoop(img, n, byteToSend, buf) ==
    IF n >= Epd7in5V2Height * Epd7in5V2Width THEN buf
    ELSE LET i == n % Epd7in5V2Width
             j == n \div Epd7in5V2Width
             b == IF ConvertBit(img, i, j) = 1
                  THEN BitOr(byteToSend, ConvertMask(i))
                  ELSE byteToSend
         IN  IF i % 8 = 7
             THEN ConvertLoop(img, n + 1, PanelSetting,
                              [buf EXCEPT ![(i \div 8) + (j * widthByte) + 1] = b])
             ELSE ConvertLoop(img, n + 1, b, buf)

Convert(img) == ConvertLoop(img, 0, PanelSetting, ConvertPrefill)


Images ==
    { Image(x, y, dx, dy, pat) :
        x \in 0..MaxOrigin, y \in 0..MaxOrigin,
        dx \in 0..(Epd7in5V2Width + MaxExtra),
        dy \in 0..(Epd7in5V2Height + MaxExtra),
        pat \in Patterns }

BlackImage == Image(0, 0, Epd7in5V2Width, Epd7in5V2Height, "black")
WhiteImage == Image(0, 0, Epd7in5V2Width, Epd7in5V2Height, "white")

\* a buffer of n bytes that did not come from Convert
RawBuffer(n) == [k \in 1..n |-> (k * 83 + 90) % 256]

\* what callers pass to Display: Convert of an image, or a buffer of their own
\* that is one byte short, of the panel's size or one byte long
DisplayInputs ==
    { [image |-> im, buffer |-> Convert(im)] : im \in {BlackImage, WhiteImage} }
    \cup
    { [image |-> NoImage, buffer |-> RawBuffer(n)] :
        n \in (widthByte * heightByte - 1)..(widthByte * heightByte + 1) }

NoInput == { [image |-> NoImage, buffer |-> << >>] }

(***************************************************************************)
(* The state.                                                              *)
(***************************************************************************)
VARIABLES
    dc,      \* level of the data/command-select line
    cs,      \* level of the chip-select line
    rst,     \* level of the reset line
    busy,    \* level the panel drives on the busy line
    op,      \* the public operation called last
    image,   \* the image given to Convert (NoImage: none)
    buffer,  \* the buffer Convert returned, or the one given to Display
    todo,    \* the statements the running operation still has to execute
    sub,     \* the position inside the statement at the head of todo
    result,  \* "running", or how the operation returned: "ok", "err", "panic"
    trace,   \* what the operation called last has done on the lines so far
    mode     \* the operating mode of the panel

vars == << dc, cs, rst, busy, op, image, buffer, todo, sub, result, trace, mode >>

PublicOps == {"Reset", "Init", "InitFast", "InitPart", "Clear", "Display", "Sleep"}

Program(o, img) ==
    CASE o = "Reset" -> Reset
      [] o = "Init" -> EpdInit
      [] o = "InitFast" -> InitFast
      [] o = "InitPart" -> InitPart
      [] o = "Clear" -> Clear
      [] o = "Display" -> Display(img)
      [] o = "Sleep" -> Sleep

Inputs(o) == IF o = "Display" THEN DisplayInputs ELSE NoInput

\* the calls a caller can make, each with the statements it executes
Calls ==
    UNION { { [op |-> o, image |-> inp.image, buffer |-> inp.buffer,
               todo |-> Program(o, inp.buffer)] : inp \in Inputs(o) } :
            o \in PublicOps }

\* the operating mode once operation o has returned nil
ModeAfter(o, m) ==
    CASE o = "Reset" -> "uninitialized"
      [] o = "Init" -> "full"
      [] o = "InitFast" -> "fast"
      [] o = "InitPart" -> "partial"
      [] o = "Sleep" -> "sleeping"
      [] OTHER -> m

\* an entry of the trace: a line write (k is the line, lv the level), a byte
\* exchange (k = "tx", b the byte, lv the level of dc during it), a delay
\* (k = "sleep", b the milliseconds), a busy-wait that returned (k = "wait"),
\* a failed step (k = "fail", lv the step) or a panic; fn is the statement
Ev(k, fn, lv, b) == [k |-> k, fn |-> fn, lv |-> lv, b |-> b]

\* the state after New returned a handle: dc, cs and rst were configured low
Init ==
    /\ dc = Low
    /\ cs = Low
    /\ rst = Low
    /\ busy \in {Low, High}
    /\ op = "New"
    /\ image = NoImage
    /\ buffer = << >>
    /\ todo = << >>
    /\ sub = 0
    /\ result = "ok"
    /\ trace = << >>
    /\ mode = "uninitialized"

cur == Head(todo)

IsSend(s) == s.i \in {"sendCommand", "sendData"}

\* the caller calls a public operation once the previous one has returned;
\* a New that failed returned no handle to call it on
Call ==
    /\ result # "running"
    /\ ~(op = "New" /\ result = "err")
    /\ \E c \in Calls :
        /\ op' = c.op
        /\ image' = c.image
        /\ buffer' = c.buffer
        /\ todo' = c.todo
    /\ sub' = 0
    /\ result' = "running"
    /\ trace' = << >>
    /\ UNCHANGED << dc, cs, rst, busy, mode >>

\* the statement at the head of todo has completed; after the last one the
\* operation returns nil
Complete ==
    /\ todo' = Tail(todo)
    /\ sub' = 0
    /\ result' = IF Tail(todo) = << >> THEN "ok" ELSE "running"
    /\ mode' = IF Tail(todo) = << >> THEN ModeAfter(op, mode) ELSE mode

\* an error that is dropped: the operation goes on with its next statement
ErrIgnored(rest) == Tail(rest)

\* "if err != nil { return err }": nothing of the operation is left to run
ErrReturn(rest) == << >>

\* a line write or the byte exchange returned an error; the line keeps its level
Failed(step) ==
    /\ trace' = Append(trace, Ev("fail", cur.i, step, cur.b))
    /\ todo' = ErrReturn(todo)
    /\ sub' = 0
    /\ result' = IF ErrReturn(todo) = << >> THEN "err" ELSE "running"
    /\ UNCHANGED << dc, cs, rst, busy, op, image, buffer, mode >>

\* e.rst.Out(level) in Reset
RstOut ==
    /\ result = "running"
    /\ cur.i = "rst"
    /\ \/ /\ rst' = cur.lv
          /\ trace' = Append(trace, Ev("rst", cur.i, cur.lv, 0))
          /\ Complete
          /\ UNCHANGED << dc, cs, busy, op, image, buffer >>
       \/ Failed("rst")

\* time.Sleep
TimeSleep ==
    /\ result = "running"
    /\ cur.i = "sleep"
    /\ trace' = Append(trace, Ev("sleep", cur.i, "-", cur.b))
    /\ Complete
    /\ UNCHANGED << dc, cs, rst, busy, op, image, buffer >>

\* e.dc.Out in sendCommand and sendData
SendDC ==
    /\ result = "running"
    /\ IsSend(cur)
    /\ sub = 0
    /\ \/ /\ dc' = cur.lv
          /\ trace' = Append(trace, Ev("dc", cur.i, cur.lv, cur.b))
          /\ sub' = 1
          /\ UNCHANGED << cs, rst, busy, op, image, buffer, todo, result, mode >>
       \/ Failed("dc")

\* e.cs.Out(gpio.Low) in sendCommand and sendData
SendCSLow ==
    /\ result = "running"
    /\ IsSend(cur)
    /\ sub = 1
    /\ \/ /\ cs' = Low
          /\ trace' = Append(trace, Ev("cs", cur.i, Low, cur.b))
          /\ sub' = 2
          /\ UNCHANGED << dc, rst, busy, op, image, buffer, todo, result, mode >>
       \/ Failed("cs")

\* e.c.Tx([]byte{b}, nil) in sendCommand and sendData
SendTx ==
    /\ result = "running"
    /\ IsSend(cur)
    /\ sub = 2
    /\ \/ /\ trace' = Append(trace, Ev("tx", cur.i, dc, cur.b))
          /\ sub' = 3
          /\ UNCHANGED << dc, cs, rst, busy, op, image, buffer, todo, result, mode >>
       \/ Failed("tx")

\* sendCommand and sendData returning nil without e.cs.Out(gpio.High)
SendCSHigh_Skipped ==
    /\ result = "running"
    /\ IsSend(cur)
    /\ sub = 3
    /\ trace' = Append(trace, Ev("cs", cur.i, cs, cur.b))
    /\ Complete
    /\ UNCHANGED << dc, cs, rst, busy, op, image, buffer >>

\* e.cs.Out(gpio.High) in sendCommand and sendData, and their return nil
SendCSHigh ==
    /\ result = "running"
    /\ IsSend(cur)
    /\ sub = 3
    /\ \/ /\ cs' = High
          /\ trace' = Append(trace, Ev("cs", cur.i, High, cur.b))
          /\ Complete
          /\ UNCHANGED << dc, rst, busy, op, image, buffer >>
       \/ Failed("cs")

\* a poll loop that gives up: it is left whatever the busy line reads
WaitPoll_Timeout ==
    /\ result = "running"
    /\ cur.i = "waitUntilIdle"
    /\ sub = 0
    /\ sub' = 1
    /\ UNCHANGED << dc, cs, rst, busy, op, image, buffer, todo, result, trace, mode >>

\* the loop of waitUntilIdle: a read of the busy line; low: sleep 5 ms and
\* read again, otherwise leave the loop
WaitPoll ==
    /\ result = "running"
    /\ cur.i = "waitUntilIdle"
    /\ sub = 0
    /\ \/ /\ busy = Low
          /\ UNCHANGED vars
       \/ /\ busy # Low
          /\ sub' = 1
          /\ UNCHANGED << dc, cs, rst, busy, op, image, buffer, todo, result, trace, mode >>

\* the last sleep of 5 ms of waitUntilIdle, and its return
WaitSettle ==
    /\ result = "running"
    /\ cur.i = "waitUntilIdle"
    /\ sub = 1
    /\ trace' = Append(trace, Ev("wait", cur.i, "-", 5))
    /\ Complete
    /\ UNCHANGED << dc, cs, rst, busy, op, image, buffer >>

\* img[i+j*e.widthByte] past the end of img: the run-time panic leaves Display
IndexPanic ==
    /\ result = "running"
    /\ cur.i = "panic"
    /\ trace' = Append(trace, Ev("panic", cur.i, "-", 0))
    /\ todo' = << >>
    /\ sub' = 0
    /\ result' = "panic"
    /\ UNCHANGED << dc, cs, rst, busy, op, image, buffer, mode >>

\* the panel changes the busy line; the driver reads it in waitUntilIdle only
BusyChange ==
    /\ result = "running"
    /\ cur.i = "waitUntilIdle"
    /\ sub = 0
    /\ busy' = IF busy = Low THEN High ELSE Low
    /\ UNCHANGED << dc, cs, rst, op, image, buffer, todo, sub, result, trace, mode >>

Next ==
    \/ Call
    \/ RstOut
    \/ TimeSleep
    \/ SendDC
    \/ SendCSLow
    \/ SendTx
    \/ SendCSHigh
    \/ WaitPoll
    \/ WaitSettle
    \/ IndexPanic
    \/ BusyChange

Spec == Init /\ [][Next]_vars

\* the driver's thread of control keeps running: a poll that can leave the
\* loop does leave it, and the last sleep of waitUntilIdle ends
SpecLive == Spec /\ WF_vars(WaitPoll) /\ WF_vars(WaitSettle)

(***************************************************************************)
(* New, statement by statement: every step can fail, and a failure returns *)
(* nil and the error.  A line is acquired when it is configured, the port  *)
(* when it is opened.                                                      *)
(***************************************************************************)
InitNew ==
    /\ dc = "-"
    /\ cs = "-"
    /\ rst = "-"
    /\ busy \in {Low, High}
    /\ op = "New"
    /\ image = NoImage
    /\ buffer = << >>
    /\ todo = New
    /\ sub = 0
    /\ result = "running"
    /\ trace = << >>
    /\ mode = "uninitialized"

\* host.Init, gpioreg.ByName and the gpio.INVALID test acquire nothing
NewCheck ==
    /\ result = "running"
    /\ cur.i \in {"hostInit", "ByName", "INVALID"}
    /\ \/ /\ trace' = Append(trace, Ev("check", cur.i, cur.lv, 0))
          /\ Complete
          /\ UNCHANGED << dc, cs, rst, busy, op, image, buffer >>
       \/ Failed(cur.i)

\* dc.Out(gpio.Low), cs.Out(gpio.Low), rst.Out(gpio.Low): the line is
\* configured as an output and driven low
NewPinOut ==
    /\ result = "running"
    /\ cur.i = "Out"
    /\ \/ /\ dc' = IF cur.lv = "dc" THEN Low ELSE dc
          /\ cs' = IF cur.lv = "cs" THEN Low ELSE cs
          /\ rst' = IF cur.lv = "rst" THEN Low ELSE rst
          /\ trace' = Append(trace, Ev("acquire", cur.i, cur.lv, 0))
          /\ Complete
          /\ UNCHANGED << busy, op, image, buffer >>
       \/ Failed(cur.i)

\* busy.In(gpio.PullDown, gpio.RisingEdge): the line is configured as an input
NewPinIn ==
    /\ result = "running"
    /\ cur.i = "In"
    /\ \/ /\ trace' = Append(trace, Ev("acquire", cur.i, cur.lv, 0))
          /\ Complete
          /\ UNCHANGED << dc, cs, rst, busy, op, image, buffer >>
       \/ Failed(cur.i)

\* spireg.Open("")
NewOpen ==
    /\ result = "running"
    /\ cur.i = "Open"
    /\ \/ /\ trace' = Append(trace, Ev("acquire", cur.i, cur.lv, 0))
          /\ Complete
          /\ UNCHANGED << dc, cs, rst, busy, op, image, buffer >>
       \/ Failed(cur.i)

\* port.Connect: on its failure New calls port.Close, which can fail too, and
\* returns an error either way
NewConnect ==
    /\ result = "running"
    /\ cur.i = "Connect"
    /\ \/ /\ trace' = Append(trace, Ev("check", cur.i, cur.lv, 0))
          /\ Complete
          /\ UNCHANGED << dc, cs, rst, busy, op, image, buffer >>
       \/ /\ trace' = trace \o << Ev("release", "Close", cur.lv, 0),
                                  Ev("fail", cur.i, cur.i, 0) >>
          /\ todo' = << >>
          /\ sub' = 0
          /\ result' = "err"
          /\ UNCHANGED << dc, cs, rst, busy, op, image, buffer, mode >>
       \/ /\ trace' = trace \o << Ev("fail", cur.i, cur.i, 0),
                                  Ev("fail", "Close", "Close", 0) >>
          /\ todo' = << >>
          /\ sub' = 0
          /\ result' = "err"
          /\ UNCHANGED << dc, cs, rst, busy, op, image, buffer, mode >>

NextNew ==
    \/ NewCheck
    \/ NewPinOut
    \/ NewPinIn
    \/ NewOpen
    \/ NewConnect
    \/ Next

SpecNew == InitNew /\ [][NextNew]_vars

(***************************************************************************)
(* Convert on its own: the caller converts any image of Images.            *)
(***************************************************************************)
InitConvert ==
    /\ dc = Low
    /\ cs = Low
    /\ rst = Low
    /\ busy = High
    /\ op = "New"
    /\ image \in Images
    /\ buffer = << >>
    /\ todo = << >>
    /\ sub = 0
    /\ result = "ok"
    /\ trace = << >>
    /\ mode = "uninitialized"

ConvertCall ==
    /\ op = "New"
    /\ op' = "Convert"
    /\ buffer' = Convert(image)
    /\ UNCHANGED << dc, cs, rst, busy, image, todo, sub, result, trace, mode >>

SpecConvert == InitConvert /\ [][ConvertCall]_vars

(***************************************************************************)
(* Properties.                                                             *)
(***************************************************************************)
Positions == 1..Len(trace)

IsTx(e) == e.k = "tx"
IsCommand(e) == e.k = "tx" /\ e.fn = "sendCommand"
IsData(e) == e.k = "tx" /\ e.fn = "sendData"

NoByteSent == \A p \in Positions : ~IsTx(trace[p])

\* the commands, data bytes and busy-waits of the trace, in order
IsTransport(e) == e.k \in {"tx", "wait"}
Transport == SelectSeq(trace, IsTransport)

\* the commands and busy-waits of the trace, in order
IsCommandOrWait(e) == IsCommand(e) \/ e.k = "wait"
CommandsAndWaits == SelectSeq(trace, IsCommandOrWait)

\* the level data/command-select must have for a byte sent by fn
SelectLevel(fn) == IF fn = "sendCommand" THEN "Low" ELSE "High"

\* the byte exchanged at p was framed: data/command-select written, then
\* chip-select driven low, then the exchange with data/command-select at its level
Framed(p) ==
    /\ p >= 3
    /\ trace[p - 2].k = "dc"
    /\ trace[p - 2].lv = SelectLevel(trace[p].fn)
    /\ trace[p - 1].k = "cs"
    /\ trace[p - 1].lv = "Low"
    /\ trace[p].lv = SelectLevel(trace[p].fn)

\* chip-select was driven high right after the exchange at p
Closed(p) ==
    /\ p + 1 <= Len(trace)
    /\ trace[p + 1].k = "cs"
    /\ trace[p + 1].lv = "High"

\* the chip-select write after the exchange at p failed and ended the operation
LeftLow(p) ==
    /\ p + 1 = Len(trace)
    /\ trace[p + 1].k = "fail"
    /\ trace[p + 1].lv = "cs"
    /\ result = "err"
    /\ cs = "Low"

\* the step after the exchange at p has been taken
Answered(p) == p < Len(trace) \/ result # "running"

\* C1 as stated: every byte sent is framed by data/command-select written
\* (low for a command, high for data), chip-select low, one exchange, and
\* chip-select driven high.
C1_EveryByteClosed ==
    \A p \in Positions :
        IsTx(trace[p]) => Framed(p) /\ (Answered(p) => Closed(p))

\* C1, amended: every byte sent is framed by data/command-select written (low
\* for a command, high for data), chip-select low and one exchange, during
\* which chip-select is low and data/command-select keeps its level; then
\* chip-select is driven high, unless that write fails: then the operation
\* returns the error at once with chip-select left low.  So within an
\* operation chip-select is driven high between any two consecutive exchanges:
\* an exchange that another one follows is not the one before a final failure.
C1_Framing ==
    /\ \A p \in Positions :
        IsTx(trace[p]) => Framed(p) /\ (Answered(p) => Closed(p) \/ LeftLow(p))
    /\ (result = "running" /\ IsSend(cur) /\ sub \in {2, 3}) =>
            cs = "Low" /\ dc = SelectLevel(cur.i)

C1_Witness ==
    \E p, q \in Positions :
        /\ IsCommand(trace[p]) /\ Closed(p)
        /\ IsData(trace[q]) /\ Closed(q)
        /\ p < q

\* C2: Clear or Display called while the panel is uninitialized or sleeping
\* fails and transmits no byte.
C2_PreconditionChecked ==
    (op \in {"Clear", "Display"} /\ mode \in {"uninitialized", "sleeping"})
        => NoByteSent /\ result \in {"running", "err"}

\* C3: Display of a buffer whose length is not bytes-per-row x rows returns
\* an error and sends nothing.
C3_LengthChecked ==
    (op = "Display" /\ Len(buffer) # widthByte * heightByte)
        => NoByteSent /\ result \in {"running", "err"}

\* C4: with no I/O failure, Display(Convert(img)) of a fully black img after
\* Init emits the data-start command, then only data bytes equal to the black
\* expansion byte (0x00), then the display-refresh command, then a busy-wait
\* and nothing more.
C4_BlackFrame ==
    (op = "Display" /\ result = "ok" /\ mode = "full" /\ image = BlackImage) =>
        LET t == Transport
            n == Len(t)
        IN  /\ n > 3
            /\ IsCommand(t[1]) /\ t[1].b = \h10
            /\ \A p \in 2..(n - 2) : IsData(t[p]) /\ t[p].b = \h00
            /\ IsCommand(t[n - 1]) /\ t[n - 1].b = \h12
            /\ t[n].k = "wait"
            /\ trace[Len(trace)].k = "wait"

C4_Witness ==
    /\ op = "Display" /\ result = "ok" /\ mode = "full" /\ image = BlackImage
    /\ buffer = Convert(BlackImage)
    /\ Len(Transport) = 4 * widthByte * heightByte + 3

\* C8: the first line write or byte exchange that fails ends the operation:
\* it returns the error, and performs no step after the failed one.
C8_AbortOnFailure ==
    /\ \A p \in Positions :
        trace[p].k = "fail" => p = Len(trace) /\ result = "err" /\ todo = << >>
    /\ result = "err" => trace # << >> /\ trace[Len(trace)].k = "fail"

C8_Witness ==
    /\ result = "err"
    /\ Len(trace) > 3
    /\ trace[Len(trace)].k = "fail"
    /\ trace[Len(trace)].lv = "tx"

\* the reset pulse: high, 20 ms, low, 2 ms, high, 20 ms
Pulse ==
    << Ev("rst", "rst", "High", 0), Ev("sleep", "sleep", "-", 20),
       Ev("rst", "rst", "Low", 0), Ev("sleep", "sleep", "-", 2),
       Ev("rst", "rst", "High", 0), Ev("sleep", "sleep", "-", 20) >>

IsPrefix(s, t) == Len(s) <= Len(t) /\ \A p \in 1..Len(s) : s[p] = t[p]

\* the trace without the failure that ended it
Performed ==
    IF trace # << >> /\ trace[Len(trace)].k = "fail"
    THEN SubSeq(trace, 1, Len(trace) - 1) ELSE trace

\* C9: Reset drives the reset line high, holds 20 ms, drives it low, holds
\* 2 ms, drives it high and holds 20 ms, in that order, and each init performs
\* the complete pulse before its first command byte.
C9_ResetPulse ==
    /\ op = "Reset" => IsPrefix(Performed, Pulse) /\ (result = "ok" => trace = Pulse)
    /\ op \in {"Init", "InitFast", "InitPart"} =>
        /\ IsPrefix(Performed, Pulse) \/ IsPrefix(Pulse, trace)
        /\ \A p \in Positions :
            trace[p].k \in {"dc", "cs", "tx"} => p > Len(Pulse) /\ IsPrefix(Pulse, trace)

C9_Witness ==
    /\ op = "InitPart"
    /\ IsPrefix(Pulse, trace)
    /\ Len(trace) > Len(Pulse)
    /\ IsCommand(trace[Len(trace)])

\* the commands of Init, with the busy-wait (-1) where it happens
InitOrder == << \h01, \h06, \h04, -1, \h00, \h61, \h15, \h50, \h60 >>

OrderOf(t) == [p \in 1..Len(t) |-> IF t[p].k = "wait" THEN -1 ELSE t[p].b]

\* C10: each init that meets no failure performs exactly one busy-wait, after
\* the power-on command (0x04) and before any later command; in Init, 0x01
\* with four data bytes and 0x06 with four data bytes precede power-on, and
\* 0x00, 0x61, 0x15, 0x50 and 0x60 follow the busy-wait in that order.
C10_InitOrder ==
    (op \in {"Init", "InitFast", "InitPart"} /\ result = "ok") =>
        LET t == Transport
            w == { p \in 1..Len(t) : t[p].k = "wait" }
        IN  /\ Cardinality(w) = 1
            /\ \A p \in w : p > 1 /\ IsCommand(t[p - 1]) /\ t[p - 1].b = \h04
            /\ op = "Init" =>
                /\ OrderOf(CommandsAndWaits) = InitOrder
                /\ IsCommand(t[1]) /\ t[1].b = \h01
                /\ \A p \in 2..5 : IsData(t[p])
                /\ IsCommand(t[6]) /\ t[6].b = \h06
                /\ \A p \in 7..10 : IsData(t[p])
                /\ IsCommand(t[11]) /\ t[11].b = \h04

C10_Witness ==
    /\ op = "Init"
    /\ result = "ok"
    /\ Len(Transport) > 12

PanelCols == 0..(Epd7in5V2Width - 1)
PanelRows == 0..(Epd7in5V2Height - 1)
BufferIndexes == 0..(widthByte * heightByte - 1)

\* the bit of panel pixel (col, row) in a buffer: 8 pixels a byte, the first
\* in the most significant bit
BufferBit(buf, col, row) ==
    (buf[(col \div 8) + (row * widthByte) + 1] \div 2^(7 - (col % 8))) % 2

\* C5: for an image of any size Convert returns bytes-per-row x rows bytes,
\* and every panel pixel outside the image's width or height is white (bit 1).
C5_SizeAndPadding ==
    op = "Convert" =>
        /\ Len(buffer) = widthByte * heightByte
        /\ \A col \in PanelCols, row \in PanelRows :
            (col >= image.dx \/ row >= image.dy) => BufferBit(buffer, col, row) = 1

C5_Witness ==
    /\ op = "Convert"
    /\ image.pat = "black" /\ image.minX = 0 /\ image.minY = 0
    /\ 0 < image.dx /\ image.dx < Epd7in5V2Width
    /\ 0 < image.dy /\ image.dy < Epd7in5V2Height
    /\ BufferBit(buffer, 0, 0) = 0
    /\ BufferBit(buffer, Epd7in5V2Width - 1, Epd7in5V2Height - 1) = 1

\* C6: Convert of an all-black full-geometry image returns one fixed byte
\* throughout, Convert of an all-white one returns one fixed byte throughout,
\* and that is the byte the buffer is pre-filled with.
C6_UniformCodes ==
    op = "Convert" =>
        /\ image = BlackImage => \A k \in BufferIndexes : buffer[k + 1] = buffer[1]
        /\ image = WhiteImage =>
            \A k \in BufferIndexes :
                buffer[k + 1] = buffer[1] /\ buffer[k + 1] = ConvertPrefill[k + 1]

\* C7 as stated: each byte of the buffer holds two horizontally adjacent panel
\* pixels as two 4-bit codes, (first << 4) | second, for some code of black
\* and some code of white, the byte at column c of a row holding the pixels
\* at columns s*c and s*c + 1 for s = 2 or s = 8.
C7_TwoPixelsPerByte ==
    op = "Convert" =>
        \E black, white \in 0..15 : \E s \in {2, 8} :
            \A k \in BufferIndexes :
                LET row == k \div widthByte
                    col == s * (k % widthByte)
                    code(c) == IF ConvertBit(image, c, row) = 1 THEN white ELSE black
                IN  buffer[k + 1] = 16 * code(col) + code(col + 1)

RECURSIVE PackBits(_, _, _, _)
PackBits(img, col, row, n) ==
    IF n >= 8 THEN 0
    ELSE ConvertBit(img, col + n, row) * 2^(7 - n) + PackBits(img, col, row, n + 1)

\* C7, amended: each byte of the buffer holds eight horizontally adjacent
\* panel pixels, one bit each (1 white, 0 black), the first pixel in the most
\* significant bit.
C7_EightPixelsPerByte ==
    op = "Convert" =>
        \A k \in BufferIndexes :
            buffer[k + 1] = PackBits(image, 8 * (k % widthByte), k \div widthByte, 0)

C7_Witness ==
    /\ op = "Convert"
    /\ image = Image(0, 0, Epd7in5V2Width, Epd7in5V2Height, "checker")
    /\ buffer[1] = \h55
    /\ buffer[widthByte + 1] = \hAA

\* the steps of a part of the transport trace: who sent (sendCommand, sendData,
\* or the busy-wait) and the byte
StepsOf(t) == [p \in 1..Len(t) |-> << t[p].fn, t[p].b >>]

\* the transport trace from its first command cmd on
FromCommand(t, cmd) ==
    LET at == { p \in 1..Len(t) : IsCommand(t[p]) /\ t[p].b = cmd }
    IN  IF at = {} THEN << >>
        ELSE SubSeq(t, CHOOSE p \in at : \A q \in at : p <= q, Len(t))

\* C11: InitFast and InitPart end with the same framing of the pair 0xE0/0xE5:
\* command 0xE0, data 0x02, command 0xE5, then one data byte, 0x5A in InitFast
\* and 0x6E in InitPart.
C11_SameFraming ==
    (op \in {"InitFast", "InitPart"} /\ result = "ok") =>
        StepsOf(FromCommand(Transport, \hE0)) =
            << << "sendCommand", \hE0 >>, << "sendData", \h02 >>,
               << "sendCommand", \hE5 >>,
               << "sendData", IF op = "InitFast" THEN \h5A ELSE \h6E >> >>

\* the commands, data bytes and busy-wait of a Sleep without failure
SleepSteps ==
    << << "sendCommand", \h02 >>, << "waitUntilIdle", 5 >>,
       << "sendCommand", \h07 >>, << "sendData", \hA5 >> >>

\* C12: Sleep emits exactly command 0x02, a busy-wait, command 0x07 and the
\* data byte 0xA5, in this order, and never touches the reset line.
C12_SleepSequence ==
    op = "Sleep" =>
        /\ \A p \in Positions : trace[p].fn # "rst"
        /\ IsPrefix(StepsOf(Transport), SleepSteps)
        /\ result = "ok" => StepsOf(Transport) = SleepSteps

C12_Witness ==
    /\ op = "Sleep" /\ result = "ok"
    /\ Len(Transport) = 4
    /\ trace[Len(trace)].k = "cs"

\* the number of data bytes exchanged before position p of the trace
DataBefore(p) == Cardinality({ q \in 1..(p - 1) : IsData(trace[q]) })

\* C13: the display-refresh command 0x12 is sent only in Clear and Display,
\* only after all 4 * widthByte * heightByte data bytes of the operation and
\* as its last byte; once sent successfully it is followed by the 100 ms
\* delay and then the busy-wait, and only then does the operation return.
C13_RefreshOnlyAtEnd ==
    \A p \in Positions :
        (IsCommand(trace[p]) /\ trace[p].b = \h12) =>
            /\ op \in {"Clear", "Display"}
            /\ DataBefore(p) = 4 * widthByte * heightByte
            /\ \A q \in (p + 1)..Len(trace) : ~IsTx(trace[q])
            /\ Closed(p) =>
                /\ Len(trace) <= p + 3
                /\ Len(trace) >= p + 2 => trace[p + 2] = Ev("sleep", "sleep", "-", 100)
                /\ Len(trace) >= p + 3 => trace[p + 3].k = "wait"
                /\ result # "running" => Len(trace) = p + 3 /\ result = "ok"

C13_Witness ==
    /\ op = "Clear" /\ result = "ok"
    /\ Len(trace) > 3
    /\ IsCommand(trace[Len(trace) - 3]) /\ trace[Len(trace) - 3].b = \h12
    /\ trace[Len(trace)].k = "wait"

\* the data-start command, 4 * widthByte * heightByte filler bytes 0x33, the
\* display-refresh command and its busy-wait
ClearSteps ==
    << << "sendCommand", \h10 >> >>
    \o [k \in 1..(4 * widthByte * heightByte) |-> << "sendData", \h33 >>]
    \o << << "sendCommand", \h12 >>, << "waitUntilIdle", 5 >> >>

\* C14: Clear sends command 0x10, then exactly 4 * widthByte * heightByte
\* data bytes, each 0x33, then the refresh trigger, and no other command.
C14_ClearStream ==
    op = "Clear" =>
        /\ IsPrefix(StepsOf(Transport), ClearSteps)
        /\ result = "ok" => StepsOf(Transport) = ClearSteps

C14_Witness ==
    /\ op = "Clear" /\ result = "ok"
    /\ Len(Transport) = 4 * widthByte * heightByte + 3
    /\ Transport[2].b = \h33

\* bit m of a buffer byte, bit 0 the most significant
BitOf(byte, m) == (byte \div (2 ^ (7 - m))) % 2

\* the 4-bit code of one buffer bit
CodeOf(bit) == IF bit = 1 THEN \h3 ELSE \h0

\* the n-th (0..3) transport byte of a buffer byte: the codes of bits 2n and
\* 2n+1 in its high and low nibble
Expansion(byte, n) == 16 * CodeOf(BitOf(byte, 2 * n)) + CodeOf(BitOf(byte, 2 * n + 1))

\* C15: Display of a buffer of widthByte * heightByte bytes sends, after the
\* command 0x10, four data bytes for each buffer byte in buffer order, the
\* n-th of the four holding the codes of bits 2n and 2n+1 (most significant
\* bit first, 1 -> 0x3, 0 -> 0x0), 4 * widthByte * heightByte bytes in all.
C15_Expansion ==
    (op = "Display" /\ Len(buffer) = widthByte * heightByte) =>
        LET t == Transport
            total == 4 * widthByte * heightByte
        IN  /\ Len(t) >= 1 => IsCommand(t[1]) /\ t[1].b = \h10
            /\ \A p \in 2..Len(t) :
                IF p <= total + 1
                THEN /\ IsData(t[p])
                     /\ t[p].b = Expansion(buffer[((p - 2) \div 4) + 1], (p - 2) % 4)
                ELSE ~IsData(t[p])
            /\ result = "ok" => Len(t) = total + 3

C15_Witness ==
    /\ op = "Display" /\ result = "ok"
    /\ buffer = RawBuffer(widthByte * heightByte)
    /\ Len(Transport) = 4 * widthByte * heightByte + 3
    /\ \E p \in 2..5 : Transport[p].b \notin {\h00, \h33}

\* the driver is in waitUntilIdle: in its poll loop, or in its last sleep
InWait == result = "running" /\ cur.i = "waitUntilIdle"
InPoll == InWait /\ sub = 0
InSettle == InWait /\ sub = 1

\* C16: waitUntilIdle leaves its poll loop only on a read of the busy line
\* that is not low, and returns only after one more 5 ms interval; while it
\* polls it sends nothing; if the busy line stays low for ever it never
\* returns, and if the line ends up high for ever every busy-wait returns.
C16_BusyWait ==
    /\ [][(InPoll /\ ~InPoll') => (busy # "Low" /\ InSettle' /\ todo' = todo)]_vars
    /\ [][InPoll => trace' = trace]_vars
    /\ [][(InWait /\ todo' # todo) =>
            (InSettle /\ trace' = Append(trace, Ev("wait", "waitUntilIdle", "-", 5)))]_vars
    /\ []((InPoll /\ [](busy = "Low")) => []InPoll)
    /\ (<>[](busy = "High")) => []<>(~InWait)

C16_Witness ==
    /\ op = "Sleep" /\ result = "running"
    /\ trace # << >>
    /\ trace[Len(trace)].k = "wait"
    /\ busy = "High"

\* the lines and the port New acquires
Resources == {"dc", "cs", "rst", "busy", "port"}

\* the resources New has acquired and not released
Held ==
    { r \in Resources :
        /\ \E p \in Positions : trace[p].k = "acquire" /\ trace[p].lv = r
        /\ ~ \E p \in Positions : trace[p].k = "release" /\ trace[p].lv = r }

\* C17: when a step of New fails, New returns no handle and an error, and
\* every line configured and the port opened by the earlier steps have been
\* released.
C17_AllReleased ==
    (op = "New" /\ result = "err") =>
        /\ ~ENABLED Call
        /\ Held = {}

\* the commands, data bytes and busy-waits a program performs when nothing
\* fails, as StepsOf lists them
IsTransportStmt(s) == IsSend(s) \/ s.i = "waitUntilIdle"
ProgramSteps(prog) ==
    LET t == SelectSeq(prog, IsTransportStmt)
    IN  [p \in 1..Len(t) |->
            IF t[p].i = "waitUntilIdle" THEN << t[p].i, 5 >> ELSE << t[p].i, t[p].b >>]

ClearProgramSteps == ProgramSteps(Clear)
WhiteDisplayProgramSteps == ProgramSteps(Display(Convert(WhiteImage)))

\* C18: with no failure, Clear and Display(Convert(img)) of an all-white img
\* of the panel's size have the same transport trace: a Clear that returned
\* nil has performed the steps of that Display, and that Display the steps of
\* Clear.
C18_ClearEqualsWhiteDisplay ==
    /\ (op = "Clear" /\ result = "ok") =>
            StepsOf(Transport) = WhiteDisplayProgramSteps
    /\ (op = "Display" /\ image = WhiteImage /\ result = "ok") =>
            /\ buffer = Convert(WhiteImage)
            /\ StepsOf(Transport) = ClearProgramSteps

C18_Witness ==
    /\ op = "Display" /\ image = WhiteImage /\ result = "ok"
    /\ Len(Transport) = 4 * widthByte * heightByte + 3
    /\ \A p \in 2..(Len(Transport) - 2) : Transport[p].b = \h33

\* C19 as stated: in every reachable state, after failures too, the
\* data/command-select line changes level only while chip-select is high.
C19_SelectOnlyWhileDeselected ==
    [][dc' # dc => cs = "High"]_vars

\* C19, amended: the data/command-select line changes level only while
\* chip-select is high, or at the first select write of an operation that has
\* not exchanged a byte yet, chip-select having been left low by an aborted
\* operation (the line then goes from high to low); an operation that
\* exchanged a byte and returned nil leaves chip-select high.
C19_SelectAfterAbort ==
    /\ [][dc' # dc =>
            \/ cs = "High"
            \/ NoByteSent /\ dc = "High" /\ dc' = "Low"]_vars
    /\ []((result = "ok" /\ ~NoByteSent) => cs = "High")

\* the driver is about to write the select line low, for the first byte of an
\* operation, with chip-select left low and select left high
C19_Witness ==
    /\ result = "running" /\ IsSend(cur) /\ sub = 0
    /\ NoByteSent
    /\ cs = "Low" /\ dc = "High" /\ cur.lv = "Low"

\* the black/white threshold of a grey level: the nearer of black (0) and
\* white (255), as bit 0 and bit 1
Threshold(grey) == IF grey >= 128 THEN 1 ELSE 0

\* C20: for every image, also one whose bounds do not start at (0,0), Convert
\* encodes panel pixel (col, row) inside the image's width and height as the
\* threshold of the image pixel col columns and row rows from the image's
\* top-left corner, and every other panel pixel as white.
C20_RelativeToCorner ==
    op = "Convert" =>
        \A col \in PanelCols, row \in PanelRows :
            BufferBit(buffer, col, row) =
                IF col < image.dx /\ row < image.dy
                THEN Threshold(Grey(image.pat, image.minX + col, image.minY + row))
                ELSE 1

=============================================================================
